---- MODULE Spec2Model ----
(***************************************************************************)
(* A model of streamlit_app.py: the roster file rosters.yml, the script    *)
(* run that loads it, the roster_manager form handler that mutates one     *)
(* slot and rewrites the file, the bid / nomination / roster-view buttons, *)
(* the cheat-sheet parser and the available-player filter.                 *)
(***************************************************************************)
EXTENDS Integers, Sequences, FiniteSets, TLC

VARIABLES file, rosters, remaining_budget, drafted, pc, out, before, rt, nops,
          lines, idx, current_position, cheat_sheet,
          av_sheet, av_rosters, av_result, av_done

vars == <<file, rosters, remaining_budget, drafted, pc, out, before, rt, nops,
          lines, idx, current_position, cheat_sheet,
          av_sheet, av_rosters, av_result, av_done>>

appVars == <<file, rosters, remaining_budget, drafted, pc, out, before, rt, nops>>
parseVars == <<lines, idx, current_position, cheat_sheet>>
availVars == <<av_sheet, av_rosters, av_result, av_done>>

(***************************************************************************)
(* Bounds and program constants                                            *)
(***************************************************************************)
TOTAL_BUDGET == 260

TopN == 15

MaxOps == 2

Teams == {"TeamA", "TeamB"}
TeamOrder == <<"TeamA", "TeamB">>
Slots == {"QB1", "RB1"}
SlotOrder == <<"QB1", "RB1">>

\* what the user can type into "Player Name" and "Cost ($)"
PlayerNames == {"", "A", "B"}
Costs == {0, 40, TOTAL_BUDGET}

(***************************************************************************)
(* Slot values as yaml.safe_load returns them                              *)
(***************************************************************************)
\* a bare placeholder: a slot whose value is not a mapping
Bare == [tag |-> "bare", player |-> "", cost |-> 0]
\* a mapping whose player and cost are both null
Nulls == [tag |-> "nulls", player |-> "", cost |-> 0]
\* {"player": p, "cost": c}
Dict(p, c) == [tag |-> "dict", player |-> p, cost |-> c]

\* isinstance(info, dict)
IsDict(info) == info.tag # "bare"
\* info.get("player"), as a truth value
HasPlayer(info) == info.tag = "dict" /\ info.player # ""
\* info.get("cost") or 0
CostOr0(info) == IF info.tag = "dict" THEN info.cost ELSE 0

\* the value open_rosters returns for an empty or unreadable document
None == << >>

RECURSIVE SumSeq(_)
SumSeq(s) == IF s = << >> THEN 0 ELSE Head(s) + SumSeq(Tail(s))

(***************************************************************************)
(* rosters.yml: the document as a sequence of slot entries in key order    *)
(***************************************************************************)
KeySeq ==
  [i \in 1..(Len(TeamOrder) * Len(SlotOrder)) |->
     <<TeamOrder[((i - 1) \div Len(SlotOrder)) + 1],
       SlotOrder[((i - 1) % Len(SlotOrder)) + 1]>>]

\* yaml.safe_dump(rosters, file, sort_keys=False): one entry per slot, the
\* teams and their slots in insertion order
yaml_safe_dump(data) ==
  LET present == SelectSeq(KeySeq, LAMBDA k:
                   k[1] \in DOMAIN data /\ k[2] \in DOMAIN data[k[1]])
  IN [i \in 1..Len(present) |->
        [team |-> present[i][1], slot |-> present[i][2],
         val |-> data[present[i][1]][present[i][2]]]]

\* yaml.safe_load(file): the mapping the entries spell, None for an empty
\* document
yaml_safe_load(es) ==
  IF es = << >> THEN None
  ELSE LET
           ts == {es[i].team : i \in 1..Len(es)}
           ss(t) == {es[i].slot : i \in {j \in 1..Len(es) : es[j].team = t}}
           last(t, s) == CHOOSE i \in 1..Len(es) :
                            /\ es[i].team = t /\ es[i].slot = s
                            /\ \A j \in (i + 1)..Len(es) :
                                 ~(es[j].team = t /\ es[j].slot = s)
       IN [t \in ts |-> [s \in ss(t) |-> es[last(t, s)].val]]

open_rosters == yaml_safe_load(file)

(***************************************************************************)
(* Helpers of the script                                                   *)
(***************************************************************************)
SlotSeq(roster) == SelectSeq(SlotOrder, LAMBDA s: s \in DOMAIN roster)

spent(roster) ==
  SumSeq([i \in 1..Len(SlotSeq(roster)) |->
            IF IsDict(roster[SlotSeq(roster)[i]])
            THEN CostOr0(roster[SlotSeq(roster)[i]]) ELSE 0])

\* a variant that floors a team's remaining budget at 0
get_remaining_budgets_Clamped(data) ==
  [team_name \in DOMAIN data |->
     IF spent(data[team_name]) > TOTAL_BUDGET THEN 0
     ELSE TOTAL_BUDGET - spent(data[team_name])]

get_remaining_budgets(data) ==
  [team_name \in DOMAIN data |-> TOTAL_BUDGET - spent(data[team_name])]

\* the drafted set of available_players
drafted_set(data) ==
  {data[t][s].player : <<t, s>> \in
     {k \in Teams \X Slots : k[1] \in DOMAIN data /\ k[2] \in DOMAIN data[k[1]]
                              /\ IsDict(data[k[1]][k[2]]) /\ HasPlayer(data[k[1]][k[2]])}}

\* a variant that stores the player and forgets the cost
setSlot_DropsCost(data, team_choice, slot_choice, player_name, player_cost) ==
  [data EXCEPT ![team_choice][slot_choice] = Dict(player_name, 0)]

\* the two assignments of the form handler
setSlot(data, team_choice, slot_choice, player_name, player_cost) ==
  [data EXCEPT ![team_choice][slot_choice] = Dict(player_name, player_cost)]

\* a variant that empties every slot of the team
clearSlot_WholeTeam(data, team_choice, slot_choice) ==
  [data EXCEPT ![team_choice] = [s \in DOMAIN data[team_choice] |-> Dict("", 0)]]

clearSlot(data, team_choice, slot_choice) ==
  [data EXCEPT ![team_choice][slot_choice] = Dict("", 0)]

\* str.strip() on a string given as a sequence of characters
IsSpace(ch) == ch \in {" ", "\t", "\n"}

RECURSIVE lstrip(_)
lstrip(s) == IF s # << >> /\ IsSpace(Head(s)) THEN lstrip(Tail(s)) ELSE s

RECURSIVE rstrip(_)
rstrip(s) == IF s # << >> /\ IsSpace(s[Len(s)])
             THEN rstrip(SubSeq(s, 1, Len(s) - 1)) ELSE s

\* a variant that leaves the string as it is
strip_Nothing(s) == s

strip(s) == rstrip(lstrip(s))

\* what the user can type into "Nominated Player"
BidInputs == { << >>, <<" ">>, <<" ", "\t">>, <<"J">>, <<" ", "J", " ">> }

(***************************************************************************)
(* load_cheat_sheet: lines are sequences of characters; "EM" stands for    *)
(* the em dash                                                             *)
(***************************************************************************)
Positions == {"QB", "RB", "WR", "TE"}

MaxLines == 4

\* a line of whitespace only
Line_Blank == <<" ", "\n">>
\* "Top QBs": a QB header, by its prefix
Line_TopQB == <<"T", "o", "p", " ", "Q", "B", "s", "\n">>
Line_TopRB == <<"T", "o", "p", " ", "R", "B", "\n">>
Line_TopWR == <<"T", "o", "p", " ", "W", "R", "\n">>
Line_TOPTE == <<"T", "O", "P", " ", "T", "E", "\n">>
\* "Top TE": not a header, the TE marker is upper case
Line_TopTE == <<"T", "o", "p", " ", "T", "E", "\n">>
\* "1. A (X) — $5"
Line_Entry1 == <<"1", ".", " ", "A", " ", "(", "X", ")", " ", "EM", " ", "$", "5", "\n">>
\* " 12.  B  ( Y ) —  $65 x": padded, and with text after the cost
Line_Entry2 == <<" ", "1", "2", ".", " ", " ", "B", " ", " ", "(", " ", "Y", " ", ")", " ", "EM", " ", " ", "$", "6", "5", " ", "x", "\n">>
\* "3. C (Z) - $7": a hyphen where the em dash belongs
Line_Hyphen == <<"3", ".", " ", "C", " ", "(", "Z", ")", " ", "-", " ", "$", "7", "\n">>

LineAlphabet == {Line_Blank, Line_TopQB, Line_TopRB, Line_TopWR, Line_TOPTE, Line_TopTE, Line_Entry1, Line_Entry2, Line_Hyphen}

IsDigit(ch) == ch \in {"0", "1", "2", "3", "4", "5", "6", "7", "8", "9"}

DigitValue(ch) ==
  CASE ch = "0" -> 0 [] ch = "1" -> 1 [] ch = "2" -> 2 [] ch = "3" -> 3
    [] ch = "4" -> 4 [] ch = "5" -> 5 [] ch = "6" -> 6 [] ch = "7" -> 7
    [] ch = "8" -> 8 [] ch = "9" -> 9

\* int(cost)
RECURSIVE int(_)
int(ds) == IF ds = << >> THEN 0
           ELSE 10 * int(SubSeq(ds, 1, Len(ds) - 1)) + DigitValue(ds[Len(ds)])

\* line.startswith(prefix)
startswith(line, prefix) ==
  Len(line) >= Len(prefix) /\ SubSeq(line, 1, Len(prefix)) = prefix

AllSpace(line, i, j) == \A x \in i..j : IsSpace(line[x])
AllDigit(line, i, j) == \A x \in i..j : IsDigit(line[x])
At(line, i, ch) == i <= Len(line) /\ line[i] = ch

\* the tails of the pattern  ^\d+\.\s+(.+?)\s+\((.+?)\)\s+—\s+\$(\d+)  that
\* match line from position i on
TailCost(line, i) == At(line, i, "$") /\ i + 1 <= Len(line) /\ IsDigit(line[i + 1])
TailSpCost(line, i) ==
  \E g \in i..Len(line) : AllSpace(line, i, g) /\ TailCost(line, g + 1)
TailDash(line, i) == At(line, i, "EM") /\ TailSpCost(line, i + 1)
TailSpDash(line, i) ==
  \E f \in i..Len(line) : AllSpace(line, i, f) /\ TailDash(line, f + 1)
TailClose(line, i) == At(line, i, ")") /\ TailSpDash(line, i + 1)
TailTeam(line, i) ==
  At(line, i, "(") /\ \E e \in (i + 1)..Len(line) : TailClose(line, e + 1)
TailSpTeam(line, i) ==
  \E d \in i..Len(line) : AllSpace(line, i, d) /\ TailTeam(line, d + 1)
TailName(line, i) == \E c \in i..Len(line) : TailSpTeam(line, c + 1)

MaxOf(S) == CHOOSE x \in S : \A y \in S : y <= x
MinOf(S) == CHOOSE x \in S : \A y \in S : x <= y

\* where the leading number of line, followed by ".", can end
NumEnds(line) ==
  {a \in 1..Len(line) : AllDigit(line, 1, a) /\ At(line, a + 1, ".")}

\* re.match(...) on line: the ends <<a, b>> of the leading number and of the
\* first run of whitespace that let the rest match; {} when there is no match
MatchStarts(line) ==
  UNION {{<<a, b>> : b \in {x \in (a + 2)..Len(line) :
                             AllSpace(line, a + 2, x) /\ TailName(line, x + 1)}}
         : a \in NumEnds(line)}

re_match(line) == MatchStarts(line) # {}

\* match.groups(): \s+ and \d+ take the longest run the rest allows, (.+?)
\* the shortest
groups(line) ==
  LET n == Len(line)
      b == MaxOf({ab[2] : ab \in MatchStarts(line)})
      c == MinOf({x \in (b + 1)..n : TailSpTeam(line, x + 1)})
      d == MaxOf({x \in (c + 1)..n : AllSpace(line, c + 1, x) /\ TailTeam(line, x + 1)})
      e == MinOf({x \in (d + 2)..n : TailClose(line, x + 1)})
      f == MaxOf({x \in (e + 2)..n : AllSpace(line, e + 2, x) /\ TailDash(line, x + 1)})
      g == MaxOf({x \in (f + 2)..n : AllSpace(line, f + 2, x) /\ TailCost(line, x + 1)})
      h == MaxOf({x \in (g + 2)..n : AllDigit(line, g + 2, x)})
  IN [name |-> SubSeq(line, b + 1, c),
      team |-> SubSeq(line, d + 2, e),
      cost |-> SubSeq(line, g + 2, h)]

EmptySheet == [pos \in Positions |-> << >>]

\* a variant that takes the TE header in either casing
AfterLine_AnyCaseTE(cur, sheet, raw) ==
  LET line == strip(raw)
  IN IF line = << >> THEN [cur |-> cur, sheet |-> sheet]
     ELSE IF startswith(line, <<"T", "o", "p", " ", "Q", "B">>)
          THEN [cur |-> "QB", sheet |-> sheet]
     ELSE IF startswith(line, <<"T", "o", "p", " ", "R", "B">>)
          THEN [cur |-> "RB", sheet |-> sheet]
     ELSE IF startswith(line, <<"T", "o", "p", " ", "W", "R">>)
          THEN [cur |-> "WR", sheet |-> sheet]
     ELSE IF \/ startswith(line, <<"T", "O", "P", " ", "T", "E">>)
             \/ startswith(line, <<"T", "o", "p", " ", "T", "E">>)
          THEN [cur |-> "TE", sheet |-> sheet]
     ELSE IF cur # "" /\ re_match(line)
          THEN LET m == groups(line)
               IN [cur |-> cur,
                   sheet |-> [sheet EXCEPT ![cur] =
                                Append(@, [name |-> strip(m.name),
                                           team |-> strip(m.team),
                                           cost |-> int(m.cost)])]]
     ELSE [cur |-> cur, sheet |-> sheet]

\* the body of the loop, lines 24-45: the cursor and the sheet after one line
AfterLine(cur, sheet, raw) ==
  LET line == strip(raw)
  IN IF line = << >> THEN [cur |-> cur, sheet |-> sheet]
     ELSE IF startswith(line, <<"T", "o", "p", " ", "Q", "B">>)
          THEN [cur |-> "QB", sheet |-> sheet]
     ELSE IF startswith(line, <<"T", "o", "p", " ", "R", "B">>)
          THEN [cur |-> "RB", sheet |-> sheet]
     ELSE IF startswith(line, <<"T", "o", "p", " ", "W", "R">>)
          THEN [cur |-> "WR", sheet |-> sheet]
     ELSE IF startswith(line, <<"T", "O", "P", " ", "T", "E">>)
          THEN [cur |-> "TE", sheet |-> sheet]
     ELSE IF cur # "" /\ re_match(line)
          THEN LET m == groups(line)
               IN [cur |-> cur,
                   sheet |-> [sheet EXCEPT ![cur] =
                                Append(@, [name |-> strip(m.name),
                                           team |-> strip(m.team),
                                           cost |-> int(m.cost)])]]
     ELSE [cur |-> cur, sheet |-> sheet]

RECURSIVE SeqsUpTo(_, _)
SeqsUpTo(S, n) ==
  IF n = 0 THEN {<< >>}
  ELSE LET shorter == SeqsUpTo(S, n - 1)
       IN shorter \cup {Append(q, x) : q \in {r \in shorter : Len(r) = n - 1}, x \in S}

InitParse ==
  /\ lines \in SeqsUpTo(LineAlphabet, MaxLines)
  /\ idx = 1
  /\ current_position = ""
  /\ cheat_sheet = EmptySheet

\* one iteration of "for line in file"
ParseLine ==
  /\ idx <= Len(lines)
  /\ \E r \in {AfterLine(current_position, cheat_sheet, lines[idx])} :
       /\ current_position' = r.cur
       /\ cheat_sheet' = r.sheet
  /\ idx' = idx + 1
  /\ UNCHANGED lines

(***************************************************************************)
(* available_players                                                       *)
(***************************************************************************)
MaxSheet == 20

Min(x, y) == IF x <= y THEN x ELSE y

\* remaining[:15] and the "name ($cost)" items made of it, for one position
top_of(players, drafted_names) ==
  LET remaining == SelectSeq(players, LAMBDA p: p.name \notin drafted_names)
      top == SubSeq(remaining, 1, Min(TopN, Len(remaining)))
  IN [i \in 1..Len(top) |-> [name |-> top[i].name, cost |-> top[i].cost]]

\* a variant that cuts each position to its first 15 records before it drops
\* the drafted ones
available_players_TrimFirst(sheet, data) ==
  LET D == drafted_set(data)
      cut(pos) == SubSeq(sheet[pos], 1, Min(TopN, Len(sheet[pos])))
      listed == {pos \in DOMAIN sheet :
                   SelectSeq(cut(pos), LAMBDA p: p.name \notin D) # << >>}
  IN [pos \in listed |->
        LET remaining == SelectSeq(cut(pos), LAMBDA p: p.name \notin D)
        IN [i \in 1..Len(remaining) |->
              [name |-> remaining[i].name, cost |-> remaining[i].cost]]]

\* available_players(cheat_sheet, rosters): the items listed per position; a
\* position with nothing remaining gets no section
available_players(sheet, data) ==
  LET D == drafted_set(data)
      listed == {pos \in DOMAIN sheet :
                   SelectSeq(sheet[pos], LAMBDA p: p.name \notin D) # << >>}
  IN [pos \in listed |-> top_of(sheet[pos], D)]

\* the cheat sheets tried: n ranked QBs, of which ranks 1, 2 and 16 are the
\* players "A", "B" and "P" the rosters can hold (with dup, rank 3 lists "A"
\* a second time), two WRs and no RB or TE
NameAt(i, dup) ==
  IF i = 1 \/ (dup /\ i = 3) THEN "A"
  ELSE IF i = 2 THEN "B" ELSE IF i = 16 THEN "P" ELSE ToString(i)

SheetOf(n, dup) ==
  [pos \in Positions |->
     IF pos = "QB"
     THEN [i \in 1..n |-> [name |-> NameAt(i, dup), team |-> "X", cost |-> 70 - i]]
     ELSE IF pos = "WR"
     THEN <<[name |-> "B", team |-> "Y", cost |-> 9], [name |-> "A", team |-> "Y", cost |-> 8]>>
     ELSE << >>]

AvailSlotValues ==
  {Bare, Nulls, Dict("", 40), Dict("A", 40), Dict("B", 0), Dict("P", 5)}

InitAvail ==
  /\ \E n \in 0..MaxSheet, dup \in BOOLEAN : av_sheet = SheetOf(n, dup)
  /\ av_rosters \in [Teams -> [Slots -> AvailSlotValues]]
  /\ av_result = << >>
  /\ av_done = FALSE

\* line 118: the available players of a run
ComputeAvailable ==
  /\ ~av_done
  /\ av_result' = available_players(av_sheet, av_rosters)
  /\ av_done' = TRUE
  /\ UNCHANGED <<av_sheet, av_rosters>>

(***************************************************************************)
(* The application: one script run per user event                          *)
(***************************************************************************)
NoOut == [kind |-> "start", team |-> "", slot |-> "", player |-> "", cost |-> 0,
          confirm |-> FALSE, write |-> "none",
          bid |-> << >>, called |-> FALSE, warned |-> FALSE]

NoRt == [phase |-> "none", team |-> "", slot |-> "", league |-> None]

\* the roster files the draft can start from: a fresh template, whose slots
\* are bare placeholders, null mappings or empty placeholders, and a draft
\* under way
Template ==
  [t \in Teams |-> IF t = "TeamA"
                   THEN [s \in Slots |-> IF s = "QB1" THEN Bare ELSE Nulls]
                   ELSE [s \in Slots |-> Dict("", 0)]]

UnderWay ==
  [t \in Teams |-> IF t = "TeamA"
                   THEN [s \in Slots |-> IF s = "QB1" THEN Dict("A", 40) ELSE Bare]
                   ELSE [s \in Slots |-> IF s = "QB1" THEN Nulls ELSE Dict("B", TOTAL_BUDGET)]]

InitLeagues == {Template, UnderWay}

InitApp ==
  /\ \E L \in InitLeagues : file = yaml_safe_dump(L)
  /\ rosters = open_rosters
  /\ remaining_budget = get_remaining_budgets(rosters)
  /\ drafted = drafted_set(rosters)
  /\ pc = "idle"
  /\ out = NoOut
  /\ before = None
  /\ rt = NoRt
  /\ nops = 0

\* lines 160-168 of a run whose document does not load: the run ends in the
\* exception and nothing below is reached
LoadFails ==
  /\ pc = "idle"
  /\ nops < MaxOps
  /\ open_rosters = None
  /\ rosters' = None
  /\ remaining_budget' = << >>
  /\ drafted' = {}
  /\ out' = [NoOut EXCEPT !.kind = "loaderror"]
  /\ nops' = nops + 1
  /\ before' = None
  /\ rt' = NoRt
  /\ UNCHANGED <<file, pc>>

\* lines 160-168 of a run: data is what open_rosters returned
RunTop(data) ==
  /\ pc = "idle"
  /\ nops < MaxOps
  /\ data # None
  /\ remaining_budget' = get_remaining_budgets(data)
  /\ drafted' = drafted_set(data)
  /\ nops' = nops + 1

\* "Save Changes" with "Add/Update Player": the handler assigns the slot and
\* emits its message (lines 185-187); the write is still to come
SubmitAdd(data, team_choice, slot_choice, player_name, player_cost) ==
  /\ RunTop(data)
  /\ team_choice \in DOMAIN data
  /\ slot_choice \in DOMAIN data[team_choice]
  /\ before' = data
  /\ rosters' = setSlot(data, team_choice, slot_choice, player_name, player_cost)
  /\ out' = [NoOut EXCEPT !.kind = "set", !.team = team_choice,
                          !.slot = slot_choice, !.player = player_name,
                          !.cost = player_cost,
                          !.confirm = TRUE, !.write = "pending"]
  /\ pc' = "write"
  /\ UNCHANGED <<file, rt>>

\* "Save Changes" with "Remove Player" (lines 188-190)
SubmitRemove(data, team_choice, slot_choice) ==
  /\ RunTop(data)
  /\ team_choice \in DOMAIN data
  /\ slot_choice \in DOMAIN data[team_choice]
  /\ before' = data
  /\ rosters' = clearSlot(data, team_choice, slot_choice)
  /\ out' = [NoOut EXCEPT !.kind = "clear", !.team = team_choice,
                          !.slot = slot_choice,
                          !.confirm = TRUE, !.write = "pending"]
  /\ pc' = "write"
  /\ UNCHANGED <<file, rt>>

\* the round trip being followed: a clear of an occupied slot, then a set of
\* the same slot to the value it held
NextRt ==
  IF out.kind = "clear" /\ HasPlayer(before[out.team][out.slot])
  THEN [phase |-> "cleared", team |-> out.team, slot |-> out.slot, league |-> before]
  ELSE IF /\ out.kind = "set" /\ rt.phase = "cleared"
          /\ out.team = rt.team /\ out.slot = rt.slot
          /\ Dict(out.player, out.cost) = rt.league[rt.team][rt.slot]
       THEN [rt EXCEPT !.phase = "restored"]
       ELSE NoRt

\* lines 192-194, the write succeeds: the document is replaced by doc, the
\* dump of the mutated rosters, and st.rerun() starts the next run, which
\* loads it
WriteOk(doc) ==
  /\ pc = "write"
  /\ file' = doc
  /\ \E data \in {yaml_safe_load(doc)} :
       /\ rosters' = data
       /\ remaining_budget' = get_remaining_budgets(data)
       /\ drafted' = drafted_set(data)
  /\ out' = [out EXCEPT !.write = "ok"]
  /\ rt' = NextRt
  /\ pc' = "idle"
  /\ UNCHANGED <<before, nops>>

\* line 192 raises: the document is not opened and keeps its content
WriteOpenFails ==
  /\ pc = "write"
  /\ out' = [out EXCEPT !.write = "openfail"]
  /\ rt' = NoRt
  /\ pc' = "idle"
  /\ UNCHANGED <<file, rosters, remaining_budget, drafted, before, nops>>

\* line 193 raises: open(..., "w") has emptied the document and the dump has
\* written the first k entries of doc (k = 0: the document is left empty)
WriteDumpFails(doc, k) ==
  /\ pc = "write"
  /\ k < Len(doc)
  /\ file' = SubSeq(doc, 1, k)
  /\ out' = [out EXCEPT !.write = "dumpfail"]
  /\ rt' = NoRt
  /\ pc' = "idle"
  /\ UNCHANGED <<rosters, remaining_budget, drafted, before, nops>>

\* should_i_bid: the one place a bid reaches the external generator
should_i_bid(o, player) == [o EXCEPT !.called = TRUE]

\* "Evaluate Bid", lines 207-212
EvaluateBid(data, player) ==
  /\ RunTop(data)
  /\ rosters' = data
  /\ out' = IF strip(player) # << >>
            THEN should_i_bid([NoOut EXCEPT !.kind = "bid", !.bid = player], player)
            ELSE [NoOut EXCEPT !.kind = "bid", !.bid = player, !.warned = TRUE]
  /\ before' = None
  /\ rt' = NoRt
  /\ UNCHANGED <<file, pc>>

\* "Suggest Nomination", lines 198-200
Nominate(data) ==
  /\ RunTop(data)
  /\ rosters' = data
  /\ out' = [NoOut EXCEPT !.kind = "nominate", !.called = TRUE]
  /\ before' = None
  /\ rt' = NoRt
  /\ UNCHANGED <<file, pc>>

\* "Show roster", lines 218-221
ViewRoster(data, view_team) ==
  /\ RunTop(data)
  /\ view_team \in DOMAIN data
  /\ rosters' = data
  /\ out' = [NoOut EXCEPT !.kind = "view", !.team = view_team,
                          !.cost = get_remaining_budgets(data)[view_team]]
  /\ before' = None
  /\ rt' = NoRt
  /\ UNCHANGED <<file, pc>>

InitIdleParse ==
  /\ lines = << >> /\ idx = 1 /\ current_position = "" /\ cheat_sheet = EmptySheet

InitIdleAvail ==
  /\ av_sheet = EmptySheet /\ av_rosters = None /\ av_result = << >> /\ av_done = FALSE

Init == InitApp /\ InitIdleParse /\ InitIdleAvail

Next ==
  \/ LoadFails /\ UNCHANGED <<parseVars, availVars>>
  \/ \E data \in {open_rosters} :
       \E t \in Teams, s \in Slots, p \in PlayerNames, c \in Costs :
         SubmitAdd(data, t, s, p, c) /\ UNCHANGED <<parseVars, availVars>>
  \/ \E data \in {open_rosters} :
       \E t \in Teams, s \in Slots :
         SubmitRemove(data, t, s) /\ UNCHANGED <<parseVars, availVars>>
  \/ \E doc \in {yaml_safe_dump(rosters)} :
       WriteOk(doc) /\ UNCHANGED <<parseVars, availVars>>
  \/ WriteOpenFails /\ UNCHANGED <<parseVars, availVars>>
  \/ \E doc \in {yaml_safe_dump(rosters)} :
       \E k \in 0..(Len(doc) - 1) :
         WriteDumpFails(doc, k) /\ UNCHANGED <<parseVars, availVars>>
  \/ \E data \in {open_rosters} :
       \E b \in BidInputs : EvaluateBid(data, b) /\ UNCHANGED <<parseVars, availVars>>
  \/ \E data \in {open_rosters} :
       Nominate(data) /\ UNCHANGED <<parseVars, availVars>>
  \/ \E data \in {open_rosters} :
       \E t \in Teams : ViewRoster(data, t) /\ UNCHANGED <<parseVars, availVars>>

Spec == Init /\ [][Next]_vars

\* the application before the script has run
InitOffApp ==
  /\ file = << >> /\ rosters = None /\ remaining_budget = << >> /\ drafted = {}
  /\ pc = "off" /\ out = NoOut /\ before = None /\ rt = NoRt /\ nops = 0

InitParseOnly == InitParse /\ InitOffApp /\ InitIdleAvail

NextParse == ParseLine /\ UNCHANGED <<appVars, availVars>>

SpecParse == InitParseOnly /\ [][NextParse]_vars

InitAvailOnly == InitAvail /\ InitOffApp /\ InitIdleParse

NextAvail == ComputeAvailable /\ UNCHANGED <<appVars, parseVars>>

SpecAvail == InitAvailOnly /\ [][NextAvail]_vars

(***************************************************************************)
(* Properties of the roster store, the budgets and the bid handler         *)
(***************************************************************************)
\* the slots of a league, as <<team, slot>> pairs
Keys(data) == {k \in Teams \X Slots : k[1] \in DOMAIN data /\ k[2] \in DOMAIN data[k[1]]}

\* the slots holding a player: a mapping with a non-empty player name
OccupiedKeys(data) == {k \in Keys(data) : HasPlayer(data[k[1]][k[2]])}

\* the slots whose value is a structured record, the ones budgets count
RecordKeys(data) == {k \in Keys(data) : data[k[1]][k[2]].tag # "bare"}

RECURSIVE CostOfKeys(_, _)
CostOfKeys(data, ks) ==
  IF ks = {} THEN 0
  ELSE LET k == CHOOSE x \in ks : TRUE
       IN (IF data[k[1]][k[2]].tag = "dict" THEN data[k[1]][k[2]].cost ELSE 0)
          + CostOfKeys(data, ks \ {k})

RECURSIVE SumBudgets(_, _)
SumBudgets(rb, ts) ==
  IF ts = {} THEN 0
  ELSE LET t == CHOOSE x \in ts : TRUE IN rb[t] + SumBudgets(rb, ts \ {t})

\* C1: in every reachable League each non-empty player name occupies at most
\* one slot across all teams
C1_DraftedOnce ==
  \A k1, k2 \in OccupiedKeys(open_rosters) :
    open_rosters[k1[1]][k1[2]].player = open_rosters[k2[1]][k2[2]].player => k1 = k2

\* C2: for every reachable League, the remaining budgets summed over the teams
\* plus the cost of every slot holding a structured record equal
\* numberOfTeams * TOTAL_BUDGET, and each team's remaining budget is
\* TOTAL_BUDGET minus its spend, unclamped
C2_BudgetConservation ==
  \A data \in {open_rosters} :
    data # None =>
      LET rb == get_remaining_budgets(data)
      IN /\ DOMAIN rb = DOMAIN data
         /\ SumBudgets(rb, DOMAIN rb) + CostOfKeys(data, RecordKeys(data))
              = Cardinality(DOMAIN data) * TOTAL_BUDGET
         /\ \A t \in DOMAIN data :
              rb[t] = TOTAL_BUDGET
                        - CostOfKeys(data, {k \in RecordKeys(data) : k[1] = t})
         /\ (pc = "idle" /\ out.write \in {"none", "ok"} /\ out.kind # "loaderror")
              => remaining_budget = rb

\* a League in which a team has overspent: its remaining budget is negative
C2_Witness ==
  /\ pc = "idle" /\ out.write = "ok"
  /\ \E t \in DOMAIN rosters : remaining_budget[t] < 0
  /\ \E t \in DOMAIN rosters : remaining_budget[t] = 220

\* C4: once an occupied slot has been cleared and then set again to the
\* player and cost it held, the League in memory and the persisted League
\* are the League before the clear
C4_RoundTrip ==
  (pc = "idle" /\ rt.phase = "restored") =>
    /\ open_rosters = rt.league
    /\ rosters = rt.league
    /\ open_rosters[rt.team][rt.slot] = Dict(out.player, out.cost)

C4_Witness ==
  /\ pc = "idle" /\ out.write = "ok" /\ rt.phase = "restored"
  /\ HasPlayer(rosters[rt.team][rt.slot])
  /\ \E k \in OccupiedKeys(rosters) : k # <<rt.team, rt.slot>>

\* C5: after a setSlot or clearSlot whose write failed, the persisted League
\* that later operations load is the League from before the failed action
C5_FailedWriteKeepsLeague ==
  (pc = "idle" /\ out.write \in {"openfail", "dumpfail"}) => open_rosters = before

\* C6: a setSlot or clearSlot whose write failed has emitted no success or
\* removal confirmation
C6_ConfirmOnlyIfWritten ==
  (pc = "idle" /\ out.kind \in {"set", "clear"} /\ out.confirm) => out.write = "ok"

\* a name that is empty or whitespace only
Blank(s) == \A i \in 1..Len(s) : s[i] \in {" ", "\t", "\n"}

\* C7: a bid request whose player name is empty or only whitespace gets the
\* validation message and makes no external call; a bid reaches the external
\* generator only with a non-empty name
C7_BlankBidRejected ==
  out.kind = "bid" =>
    /\ Blank(out.bid) => (out.warned /\ ~out.called)
    /\ out.called => (~Blank(out.bid) /\ ~out.warned)

C7_Witness ==
  /\ out.kind = "bid" /\ out.bid = <<" ", "\t">> /\ out.warned /\ ~out.called

\* C9: after a completed setSlot or clearSlot the persisted League is the one
\* loaded at the start of the action with that one slot replaced; the teams,
\* the slot names and every other slot are unchanged, and the budgets and the
\* drafted set of the next run are computed from the persisted League
C9_OneSlotReplaced ==
  (pc = "idle" /\ out.write = "ok") =>
    \A data \in {open_rosters} :
      /\ DOMAIN data = DOMAIN before
      /\ \A t \in DOMAIN before :
           /\ DOMAIN data[t] = DOMAIN before[t]
           /\ \A s \in DOMAIN before[t] :
                data[t][s] =
                  IF t = out.team /\ s = out.slot
                  THEN (IF out.kind = "set"
                        THEN [tag |-> "dict", player |-> out.player, cost |-> out.cost]
                        ELSE [tag |-> "dict", player |-> "", cost |-> 0])
                  ELSE before[t][s]
      /\ rosters = data
      /\ remaining_budget = get_remaining_budgets(data)
      /\ drafted = {data[k[1]][k[2]].player : k \in OccupiedKeys(data)}

C9_Witness ==
  /\ pc = "idle" /\ out.write = "ok" /\ out.kind = "clear"
  /\ HasPlayer(before[out.team][out.slot])
  /\ \E k \in Keys(rosters) : rosters[k[1]][k[2]] = Bare
  /\ \E k \in OccupiedKeys(rosters) : TRUE

\* C10: in every reachable League a slot with an empty player name has cost 0
C10_EmptyNameCostsNothing ==
  \A k \in Keys(open_rosters) :
    ~HasPlayer(open_rosters[k[1]][k[2]]) => CostOr0(open_rosters[k[1]][k[2]]) = 0

(***************************************************************************)
(* Properties of the available-player filter and of the parser             *)
(***************************************************************************)
\* the player names of all occupied slots
DraftedNames(data) == {data[k[1]][k[2]].player : k \in OccupiedKeys(data)}

\* what was listed for a position, nothing when it has no section
Listed(pos) == IF pos \in DOMAIN av_result THEN av_result[pos] ELSE << >>

\* the number of records of players ranked above rank j that are not drafted
FreeAbove(players, j, D) == Cardinality({i \in 1..(j - 1) : players[i].name \notin D})

Marker(pos) ==
  CASE pos = "QB" -> <<"T", "o", "p", " ", "Q", "B">>
    [] pos = "RB" -> <<"T", "o", "p", " ", "R", "B">>
    [] pos = "WR" -> <<"T", "o", "p", " ", "W", "R">>
    [] pos = "TE" -> <<"T", "O", "P", " ", "T", "E">>

IsHeaderFor(raw, pos) ==
  LET l == strip(raw)
  IN Len(l) >= 6 /\ \A i \in 1..6 : l[i] = Marker(pos)[i]

HeaderOf(raw) ==
  IF \E pos \in Positions : IsHeaderFor(raw, pos)
  THEN CHOOSE pos \in Positions : IsHeaderFor(raw, pos)
  ELSE ""

\* the position set by the most recent header line before line i, given the
\* header each line is
CursorFrom(hdr, i) ==
  LET hs == {j \in 1..(i - 1) : hdr[j] # ""}
  IN IF hs = {} THEN "" ELSE hdr[MaxOf(hs)]

RecordOf(raw) ==
  LET m == groups(strip(raw))
  IN [name |-> strip(m.name), team |-> strip(m.team), cost |-> int(m.cost)]

\* C8: when the parser has read every line, each position's sequence holds
\* the records of the entry lines (lines matching the numbered-entry pattern)
\* that follow a header of that position as the most recent header, in file
\* order; an entry before any header, a header, a blank or a non-matching
\* line adds no record, so the records number the entry lines that follow a
\* header
C8_ParserFollowsHeaders ==
  idx > Len(lines) =>
    \A hdr \in {[i \in 1..Len(lines) |-> HeaderOf(lines[i])]} :
      \A ent \in {[i \in 1..Len(lines) |->
                     hdr[i] = "" /\ re_match(strip(lines[i]))]} :
        \A cur \in {[i \in 1..(Len(lines) + 1) |-> CursorFrom(hdr, i)]} :
          /\ current_position = cur[Len(lines) + 1]
          /\ \A pos \in Positions :
               \A at \in {SelectSeq([i \in 1..Len(lines) |-> i],
                                    LAMBDA i: ent[i] /\ cur[i] = pos)} :
                 /\ Len(cheat_sheet[pos]) = Len(at)
                 /\ \A j \in 1..Len(at) :
                      cheat_sheet[pos][j] = RecordOf(lines[at[j]])
          /\ SumSeq([i \in 1..4 |-> Len(cheat_sheet[<<"QB", "RB", "WR", "TE">>[i]])])
               = Cardinality({i \in 1..Len(lines) : ent[i] /\ cur[i] # ""})

\* an entry before any header is dropped, and the two entries after "TOP TE"
\* are kept in file order
C8_Witness ==
  /\ idx = 5
  /\ lines = <<Line_Entry1, Line_TOPTE, Line_Entry2, Line_Entry1>>
  /\ Len(cheat_sheet["TE"]) = 2
  /\ cheat_sheet["TE"][1] = [name |-> <<"B">>, team |-> <<"Y">>, cost |-> 65]
  /\ cheat_sheet["TE"][2] = [name |-> <<"A">>, team |-> <<"X">>, cost |-> 5]
  /\ cheat_sheet["QB"] = << >>

====
